---- MODULE Spec2Model ----
(***************************************************************************)
(* Model of plbonds: the interest-accrual engine (class Bond), the         *)
(* reference rate store (class Rates) and the calendar helpers (Date,      *)
(* RelativeDate, Maturity) of src/__init__.py.                             *)
(*                                                                         *)
(* Units.  Floats of the program are held as exact fixed-point integers:   *)
(*   rate, premium           hundredths of a percent   (6.75 -> 675)       *)
(*   capital                 1e-2  (cents)             (100.0 -> 10000)    *)
(*   interest, sum_interest,                                               *)
(*   early_buyout_cost       1e-8                      (0.1 -> 10000000)   *)
(*   continuation_premium    1e-2                      (0.1 -> 10)         *)
(* round(x, 2) and ndarray.round(8) are round-half-to-even on these.       *)
(* A calendar day is its proleptic Gregorian ordinal (date.toordinal()).   *)
(***************************************************************************)
EXTENDS Integers, Sequences, FiniteSets, TLC

VARIABLES bond, rates, interest_table, pc, frame, calls, raised, profit, store_call, loop

vars == <<bond, rates, interest_table, pc, frame, calls, raised, profit, store_call, loop>>

-----------------------------------------------------------------------------
(* Calendar: datetime.date as subclassed by Date                           *)

NA == -1000000000

IsLeap(y) == (y % 4 = 0 /\ y % 100 # 0) \/ (y % 400 = 0)

number_of_days_in_year(y) == IF IsLeap(y) THEN 366 ELSE 365

DaysInMonth(y, m) ==
    IF m = 2 THEN (IF IsLeap(y) THEN 29 ELSE 28)
    ELSE IF m \in {4, 6, 9, 11} THEN 30 ELSE 31

DaysBeforeYear(y) == (y - 1) * 365 + (y - 1) \div 4 - (y - 1) \div 100 + (y - 1) \div 400

\* the days of year y before the first of month m
DaysBeforeMonth(y, m) ==
    <<0, 31, 59, 90, 120, 151, 181, 212, 243, 273, 304, 334>>[m]
        + (IF m > 2 /\ IsLeap(y) THEN 1 ELSE 0)

\* Date(year, month, day): omitted (or zero) month and day default to 1
Date(y, m, d) ==
    DaysBeforeYear(y) + DaysBeforeMonth(y, IF m = 0 THEN 1 ELSE m)
        + (IF d = 0 THEN 1 ELSE d)

YearOf(n) ==
    CHOOSE y \in (n \div 366)..(n \div 365 + 1) :
        DaysBeforeYear(y) < n /\ n <= DaysBeforeYear(y + 1)

\* the month that holds the k-th day of year y
MonthOfYearDay(y, k) ==
    CHOOSE m \in 1..12 :
        DaysBeforeMonth(y, m) < k /\ k <= DaysBeforeMonth(y, m) + DaysInMonth(y, m)

YearDay(y, n) == n - DaysBeforeYear(y)

MonthOf(n) == MonthOfYearDay(YearOf(n), YearDay(YearOf(n), n))

DayOfYearDay(y, k) == k - DaysBeforeMonth(y, MonthOfYearDay(y, k))

DayOf(n) == DayOfYearDay(YearOf(n), YearDay(YearOf(n), n))

\* RelativeDate / Maturity: years and months are held as a total of months
RelativeDate(months, days) == [months |-> months, days |-> days]

Maturity(months) == [months |-> months, days |-> 0]

\* a keyword argument of a constructor, 0 when it was not passed (the
\* default of relativedelta)
Arg(kwargs, k) == IF k \in DOMAIN kwargs THEN kwargs[k] ELSE 0

\* RelativeDate.__init__(years, months, days): kwargs holds the arguments
\* that are not None; TypeError when there is none
RelativeDate__init__(kwargs) ==
    IF DOMAIN kwargs = {} THEN [err |-> "TypeError", rel |-> RelativeDate(0, 0)]
    ELSE [err |-> "none",
          rel |-> RelativeDate(12 * Arg(kwargs, "years") + Arg(kwargs, "months"),
                               Arg(kwargs, "days"))]

\* Maturity.__init__(years, months)
Maturity__init__(kwargs) ==
    IF DOMAIN kwargs = {} THEN [err |-> "TypeError", rel |-> RelativeDate(0, 0)]
    ELSE [err |-> "none",
          rel |-> Maturity(12 * Arg(kwargs, "years") + Arg(kwargs, "months"))]

Period_monthly == RelativeDate(1, 0)
Period_yearly == RelativeDate(12, 0)
Period_daily == RelativeDate(0, 1)

\* k * relativedelta
RelMul(k, rel) == [months |-> k * rel.months, days |-> k * rel.days]

\* date + relativedelta: shift the month, clip the day to the length of the
\* target month, then add the days
ClipDay(y, m, d) == Date(y, m, IF d > DaysInMonth(y, m) THEN DaysInMonth(y, m) ELSE d)

\* t counts months: 12 * year + (month - 1)
ShiftedDate(t, d, days) ==
    CHOOSE r \in {ClipDay(tt \div 12, (tt % 12) + 1, dd) + days : tt \in {t}, dd \in {d}} : TRUE

DatePlusYearDay(y, k, rel) ==
    ShiftedDate(y * 12 + (MonthOfYearDay(y, k) - 1) + rel.months,
                DayOfYearDay(y, k), rel.days)

DatePlus(n, rel) == DatePlusYearDay(YearOf(n), YearDay(YearOf(n), n), rel)

DateMinus(n, rel) == DatePlus(n, RelMul(-1, rel))

EndOfMonth(y, m) ==
    IF m = 12 THEN Date(y, 12, 31)
    ELSE DateMinus(Date(y, m + 1, 0), RelativeDate(0, 1))

end_of_month(n) == EndOfMonth(YearOf(n), MonthOf(n))

start_of_month(n) == Date(YearOf(n), MonthOf(n), 1)

end_of_year(n) == Date(YearOf(n), 12, 31)

start_of_year(n) == Date(YearOf(n), 1, 1)

Min(a, b) == IF a <= b THEN a ELSE b

\* round-half-to-even of num / den, for den > 0
RoundHalfEven(num, den) ==
    LET q == num \div den
        r == num % den
    IN  IF 2 * r < den THEN q
        ELSE IF 2 * r > den THEN q + 1
        ELSE IF q % 2 = 0 THEN q ELSE q + 1

-----------------------------------------------------------------------------
(* Reference rate store: class Rates                                       *)

NoDate == 0

GUSCPI == "GUS:CPI"
NBPREF == "NBP:REF"

\* Rates.__init__ with no arguments: empty daily index, no columns
EmptyData == [lo |-> 1, hi |-> 0, cols |-> <<>>]

get_methods_dict == [n \in {GUSCPI, NBPREF} |-> n]

RatesInit == [data |-> EmptyData,
              methods_dict |-> get_methods_dict,
              default_method |-> NBPREF]

IndexLen(data) == IF data.hi >= data.lo THEN data.hi - data.lo + 1 ELSE 0

\* DataFrame.reindex(pd.date_range(start, end, freq="D"))
Reindex(data, s, e) ==
    [lo |-> s, hi |-> e,
     cols |-> [n \in DOMAIN data.cols |->
                 [d \in s..e |-> IF d >= data.lo /\ d <= data.hi
                                 THEN data.cols[n][d] ELSE NA]]]

\* variant: the index is rebuilt over the dates passed
_prep_dataframe_AsPassed(data, start, end) ==
    Reindex(data, IF start = NoDate THEN data.lo ELSE start,
            IF end = NoDate THEN data.hi ELSE end)

\* _prep_dataframe(start, end): the index is rebuilt over a range that
\* holds the one it has
_prep_dataframe(data, start, end) ==
    LET s == IF start = NoDate \/ (IndexLen(data) > 0 /\ start > data.lo)
             THEN data.lo ELSE start
        e == IF end = NoDate \/ (IndexLen(data) > 0 /\ end < data.hi)
             THEN data.hi ELSE end
    IN  Reindex(data, s, e)

\* self.data.loc[s:e, name] = v  (label slice, both ends included; a new
\* column is NaN outside the slice)
LocSet(data, s, e, name, v) ==
    LET old == IF name \in DOMAIN data.cols THEN data.cols[name]
               ELSE [d \in data.lo..data.hi |-> NA]
        new == [d \in data.lo..data.hi |-> IF d >= s /\ d <= e THEN v ELSE old[d]]
    IN  [data EXCEPT !.cols = [n \in DOMAIN data.cols \cup {name} |->
                                  IF n = name THEN new ELSE data.cols[n]]]

RECURSIVE MonthStarts(_, _)
MonthStarts(s, last) ==
    IF s > last THEN <<>> ELSE <<s>> \o MonthStarts(DatePlus(s, Period_monthly), last)

RECURSIVE YearStarts(_, _)
YearStarts(s, last) ==
    IF s > last THEN <<>> ELSE <<s>> \o YearStarts(DatePlus(s, Period_yearly), last)

PeriodsOfMonths(ss) == [starts |-> ss, ends |-> [i \in 1..Len(ss) |-> end_of_month(ss[i])]]

PeriodsOfYears(ss) == [starts |-> ss, ends |-> [i \in 1..Len(ss) |-> end_of_year(ss[i])]]

\* starts and ends of the calendar months (years) spanned by [start, end]
_get_monthly_periods(start, end) ==
    PeriodsOfMonths(MonthStarts(start_of_month(start), start_of_month(end)))

_get_yearly_periods(start, end) ==
    PeriodsOfYears(YearStarts(start_of_year(start), start_of_year(end)))

RECURSIVE LocSetAll(_, _, _, _, _)
LocSetAll(data, name, values, pp, i) ==
    IF i > Len(values) \/ i > Len(pp.starts) THEN data
    ELSE LocSetAll(LocSet(data, pp.starts[i], pp.ends[i], name, values[i]),
                   name, values, pp, i + 1)

\* a Python value passed as `values`: a single number, or a list of numbers
Scalar(v) == [is_number |-> TRUE, items |-> <<v>>]

ListOf(vs) == [is_number |-> FALSE, items |-> vs]

\* set_rates_periodicaly, after _prep_dataframe: the value count must match
\* the period count, then one value per period is written.  len() of a
\* single number raises TypeError.
SetRatesOfPeriods(prepped, name, values, pp) ==
    IF values.is_number THEN [data |-> prepped, err |-> "TypeError"]
    ELSE IF Len(values.items) # Len(pp.starts)
    THEN [data |-> prepped, err |-> "AssertionError"]
    ELSE [data |-> LocSetAll(prepped, name, values.items, pp, 1), err |-> "none"]

\* set_rates_periodicaly with start and end aligned to the period
SetRatesAligned(data, name, values, period, s, e) ==
    SetRatesOfPeriods(_prep_dataframe(data, s, e), name, values,
                      IF period = Period_monthly THEN _get_monthly_periods(s, e)
                      ELSE _get_yearly_periods(s, e))

\* set_rates_periodicaly, period daily: one number for every day of
\* start..end; the type of `values` is asserted before the store is touched
SetRatesDaily(data, name, values, start, end) ==
    IF ~values.is_number THEN [data |-> data, err |-> "AssertionError"]
    ELSE [data |-> LocSet(_prep_dataframe(data, start, end), start, end, name,
                          values.items[1]),
          err |-> "none"]

\* set_rates_periodicaly with start and end solved by _solve_date_args
SetRatesSolved(data, name, values, period, start, end) ==
    IF ~(start < end) THEN [data |-> data, err |-> "AssertionError"]
    ELSE IF period = Period_daily THEN SetRatesDaily(data, name, values, start, end)
    ELSE SetRatesAligned(data, name, values, period,
            IF period = Period_monthly THEN start_of_month(start) ELSE start_of_year(start),
            IF period = Period_monthly THEN end_of_month(end) ELSE end_of_year(end))

\* _solve_date_args: a missing start (end) is the first (last) day of the
\* store, which must then have rows
_solve_date_args(data, start, end) ==
    IF (start = NoDate \/ end = NoDate) /\ IndexLen(data) = 0
    THEN [err |-> "AssertionError", start |-> start, end |-> end]
    ELSE [err |-> "none",
          start |-> IF start = NoDate THEN data.lo ELSE start,
          end |-> IF end = NoDate THEN data.hi ELSE end]

SetRatesWithArgs(data, name, values, period, solved) ==
    IF solved.err # "none" THEN [data |-> data, err |-> solved.err]
    ELSE SetRatesSolved(data, name, values, period, solved.start, solved.end)

\* set_rates_periodicaly(name, values, period, start, end).
\* Result: the store's data after the call and whether the call raised.
set_rates_periodicaly(data, name, values, period, start, end) ==
    SetRatesWithArgs(data, name, values, period, _solve_date_args(data, start, end))

\* variant: the last value is written on the last breakpoint only
ContinuousSlice_LastBreakpoint(data, dates, i) ==
    [s |-> dates[i], e |-> IF i < Len(dates) THEN dates[i + 1] ELSE dates[i]]

\* the slice of the i-th write of set_rates_continuously:
\* zip(dates[:-1], dates[1:]) of dates = [*dates, self.data.index[-1]]
ContinuousSlice(data, dates, i) ==
    [s |-> dates[i], e |-> IF i < Len(dates) THEN dates[i + 1] ELSE data.hi]

\* for v, (s, e) in zip(values, ...): self.data.loc[s:e, name] = v
RECURSIVE ContinuousWrites(_, _, _, _, _)
ContinuousWrites(data, name, values, dates, i) ==
    IF i > Len(values) \/ i > Len(dates) THEN data
    ELSE ContinuousWrites(LocSet(data, ContinuousSlice(data, dates, i).s,
                                 ContinuousSlice(data, dates, i).e, name, values[i]),
                          name, values, dates, i + 1)

SetMin(S) == CHOOSE x \in S : \A y \in S : x <= y
SetMax(S) == CHOOSE x \in S : \A y \in S : x >= y

SeqMin(dates) == SetMin({dates[i] : i \in 1..Len(dates)})
SeqMax(dates) == SetMax({dates[i] : i \in 1..Len(dates)})

\* extended_range: None, (past,), (past, None), (None, future) or
\* (past, future); None inside the tuple is NoDate
NoRange == <<>>

\* extend_edge_rates, called when extended_range is not None.  `dates` is
\* the list the store's last day was appended to; d0 is its first and dl
\* its last element.
extend_edge_rates(data, name, values, d0, dl, extended_range) ==
    IF Len(extended_range) = 1 \/ extended_range[2] = NoDate
    THEN (IF extended_range[1] = NoDate
          THEN [data |-> data, err |-> "AssertionError"]
          ELSE [data |-> LocSet(_prep_dataframe(data, extended_range[1], NoDate),
                                extended_range[1], d0, name, values[1]),
                err |-> "none"])
    ELSE IF extended_range[1] = NoDate
    THEN [data |-> LocSet(_prep_dataframe(data, NoDate, extended_range[2]),
                          dl, extended_range[2], name, values[Len(values)]),
          err |-> "none"]
    ELSE [data |-> LocSet(LocSet(_prep_dataframe(data, extended_range[1], extended_range[2]),
                                 extended_range[1], d0, name, values[1]),
                          dl, extended_range[2], name, values[Len(values)]),
          err |-> "none"]

\* set_rates_continuously after _prep_dataframe(min(dates), max(dates))
SetRatesOfDates(prepped, name, values, dates, extended_range) ==
    IF extended_range = NoRange
    THEN [data |-> ContinuousWrites(prepped, name, values, dates, 1), err |-> "none"]
    ELSE extend_edge_rates(ContinuousWrites(prepped, name, values, dates, 1), name,
                           values, dates[1], prepped.hi, extended_range)

\* set_rates_continuously(name, values, dates, extended_range)
set_rates_continuously(data, name, values, dates, extended_range) ==
    IF extended_range # NoRange /\ Len(extended_range) \notin {1, 2}
    THEN [data |-> data, err |-> "AssertionError"]
    ELSE SetRatesOfDates(_prep_dataframe(data, SeqMin(dates), SeqMax(dates)), name,
                         values, dates, extended_range)

\* self.data.loc[day, name] read by the extend methods: IndexError on a
\* store without rows, KeyError on a name without a column
EdgeValue(data, name, day) ==
    IF IndexLen(data) = 0 THEN [err |-> "IndexError", val |-> NA]
    ELSE IF name \notin DOMAIN data.cols THEN [err |-> "KeyError", val |-> NA]
    ELSE [err |-> "none", val |-> data.cols[name][day]]

\* extend_rate_to_past(date, name): the value of the store's first day is
\* written on date .. that day
ExtendPastWith(data, date, name, edge) ==
    IF edge.err # "none" THEN [data |-> data, err |-> edge.err]
    ELSE [data |-> LocSet(_prep_dataframe(data, date, NoDate), date, data.lo, name, edge.val),
          err |-> "none"]

extend_rate_to_past(data, date, name) ==
    ExtendPastWith(data, date, name, EdgeValue(data, name, data.lo))

\* extend_rate_to_future(date, name): the value of the store's last day is
\* written on that day .. date
ExtendFutureWith(data, date, name, edge) ==
    IF edge.err # "none" THEN [data |-> data, err |-> edge.err]
    ELSE [data |-> LocSet(_prep_dataframe(data, NoDate, date), data.hi, date, name, edge.val),
          err |-> "none"]

extend_rate_to_future(data, date, name) ==
    ExtendFutureWith(data, date, name, EdgeValue(data, name, data.hi))

\* RateGetMethods: the source day a series is read at
RateGetMethod(method, date) ==
    IF method = GUSCPI THEN DateMinus(date, RelativeDate(2, 0))
    ELSE DateMinus(date, RelativeDate(0, 1))

\* variant: an unknown name is read with the convention of GUS:CPI
MethodOf_OtherConvention(r, name) ==
    IF name \notin DOMAIN r.methods_dict THEN r.methods_dict[GUSCPI]
    ELSE r.methods_dict[name]

\* the lookup convention of a series, the default one for an unknown name
MethodOf(r, name) ==
    IF name \notin DOMAIN r.methods_dict THEN r.methods_dict[r.default_method]
    ELSE r.methods_dict[name]

\* if rate < 0: rate = 0 (a NaN is returned as it is)
ClampRate(rate) == IF rate # NA /\ rate < 0 THEN 0 ELSE rate

\* self.data.loc[src_date, name]: KeyError when the source day is not in
\* the index or the series has no column
RateAt(data, name, src_date) ==
    IF name \notin DOMAIN data.cols \/ src_date < data.lo \/ src_date > data.hi
    THEN [err |-> "KeyError", rate |-> NA]
    ELSE [err |-> "none", rate |-> ClampRate(data.cols[name][src_date])]

get_rate_by_date(r, name, date) ==
    RateAt(r.data, name, RateGetMethod(MethodOf(r, name), date))

-----------------------------------------------------------------------------
(* Interest accrual engine: class Bond -- ledger index                     *)

\* interest_table is None
None == <<>>

maturity_date(b) == DatePlus(b.buy_date, b.maturity)

\* _solve_till_date: a Date must be later than buy_date, a RelativeDate is
\* added to buy_date
\* variant: a Date equal to buy_date is accepted
_solve_till_date_NotBefore(b, till_date) ==
    IF till_date.kind = "Date"
    THEN IF b.buy_date <= till_date.date
         THEN [err |-> "none", end_date |-> till_date.date]
         ELSE [err |-> "AssertionError", end_date |-> NoDate]
    ELSE [err |-> "none", end_date |-> DatePlus(b.buy_date, till_date.rel)]

_solve_till_date(b, till_date) ==
    IF till_date.kind = "Date"
    THEN IF b.buy_date < till_date.date
         THEN [err |-> "none", end_date |-> till_date.date]
         ELSE [err |-> "AssertionError", end_date |-> NoDate]
    ELSE [err |-> "none", end_date |-> DatePlus(b.buy_date, till_date.rel)]

\* while cur_date < limit: count += 1; cur_date += step
RECURSIVE CountWhile(_, _, _)
CountWhile(cur_date, limit, step) ==
    IF cur_date < limit THEN 1 + CountWhile(DatePlus(cur_date, step), limit, step)
    ELSE 0

periods_per_maturity(b) ==
    CountWhile(b.buy_date, DatePlus(b.buy_date, b.maturity), b.period)

instances_per_request_date_range(b, end_date) ==
    CountWhile(b.buy_date, end_date, b.maturity)

period_start(b, instance, period_ind) ==
    DatePlus(DatePlus(b.buy_date, RelMul(instance - 1, b.maturity)),
             RelMul(period_ind - 1, b.period))

PeriodEndOf(b, ps) == Min(DatePlus(ps, b.period), DatePlus(ps, b.maturity))

period_end(b, instance, period_ind) == PeriodEndOf(b, period_start(b, instance, period_ind))

\* the keys (instance, period, date) of the days ps..pe
DateRangeKeys(instance, period_ind, ps, pe) ==
    [k \in 1..(pe - ps + 1) |->
        [instance |-> instance, period |-> period_ind, date |-> ps + k - 1]]

\* the keys of one period: pd.date_range(period_start, period_end)
df_dates(b, instance, period_ind) ==
    DateRangeKeys(instance, period_ind,
                  period_start(b, instance, period_ind),
                  period_end(b, instance, period_ind))

RECURSIVE ConcatFrames(_, _, _, _)
ConcatFrames(b, g, ppm, n) ==
    IF g > n THEN <<>>
    ELSE df_dates(b, ((g - 1) \div ppm) + 1, ((g - 1) % ppm) + 1)
         \o ConcatFrames(b, g + 1, ppm, n)

_create_interest_table_index(b, end_date) ==
    ConcatFrames(b, 1, periods_per_maturity(b),
                 instances_per_request_date_range(b, end_date) * periods_per_maturity(b))

SameKey(r, k) == r.instance = k.instance /\ r.period = k.period /\ r.date = k.date

EmptyRow(k) ==
    [instance |-> k.instance, period |-> k.period, date |-> k.date,
     rate |-> NA, capital |-> NA, interest |-> NA, sum_interest |-> NA,
     early_buyout_cost |-> NA, continuation_premium |-> NA]

\* DataFrame.reindex(df_index): a key keeps the values of the old row with
\* the same key, a key the old table does not have gets NaN in every column
reindex(table, df_index) ==
    [i \in 1..Len(df_index) |->
        IF i <= Len(table) /\ SameKey(table[i], df_index[i]) THEN table[i]
        ELSE IF \E j \in 1..Len(table) : SameKey(table[j], df_index[i])
             THEN table[CHOOSE j \in 1..Len(table) : SameKey(table[j], df_index[i])]
             ELSE EmptyRow(df_index[i])]

\* variant: the index is rebuilt for end_date on every call
_setup_interest_table_Rebuilt(b, table, end_date) ==
    reindex(table, _create_interest_table_index(b, end_date))

_setup_interest_table(b, table, end_date) ==
    IF table = None
    THEN reindex(<<>>, _create_interest_table_index(b, end_date))
    ELSE IF table[Len(table)].date < end_date
         THEN reindex(table, _create_interest_table_index(b, end_date))
         ELSE table

-----------------------------------------------------------------------------
(* Interest accrual engine: the fill pipeline                              *)

RECURSIVE SortedSeq(_)
SortedSeq(S) ==
    IF S = {} THEN <<>>
    ELSE LET m == CHOOSE x \in S : \A y \in S : x <= y
         IN  <<m>> \o SortedSeq(S \ {m})

\* positions of the first row of every (instance, period) group / instance
GroupFirstRows(table) ==
    SortedSeq({i \in 1..Len(table) :
                  i = 1 \/ table[i].instance # table[i - 1].instance
                        \/ table[i].period # table[i - 1].period})

InstanceFirstRows(table) ==
    SortedSeq({i \in 1..Len(table) : i = 1 \/ table[i].instance # table[i - 1].instance})

InstanceLastRows(table) ==
    SortedSeq({i \in 1..Len(table) :
                  i = Len(table) \/ table[i].instance # table[i + 1].instance})

\* index.get_level_values("instance").unique() / ("period").unique()
InstancesAt(table, firsts) == [k \in 1..Len(firsts) |-> table[firsts[k]].instance]

UniqueInstances(table) == InstancesAt(table, InstanceFirstRows(table))

UniquePeriods(table) ==
    SortedSeq({table[i].period : i \in 1..Len(table)})

AddNA(a, c) == IF a = NA \/ c = NA THEN NA ELSE a + c

\* variant: the rate of a group is written over the whole instance
WithGroupRate_WholeInstance(table, row, rate) ==
    [i \in 1..Len(table) |->
        IF table[i].instance = row.instance
        THEN [table[i] EXCEPT !.rate = rate] ELSE table[i]]

\* every row of the (instance, period) group of `row` gets `rate`
WithGroupRate(table, row, rate) ==
    [i \in 1..Len(table) |->
        IF table[i].instance = row.instance /\ table[i].period = row.period
        THEN [table[i] EXCEPT !.rate = rate] ELSE table[i]]

\* every row of the instance of `row` gets `rate`
WithInstanceRate(table, row, rate) ==
    [i \in 1..Len(table) |->
        IF table[i].instance = row.instance
        THEN [table[i] EXCEPT !.rate = rate] ELSE table[i]]

\* _set_rates, variable rate: one lookup per (instance, period) group at the
\* group's first date; a KeyError leaves the groups already assigned
RECURSIVE SetRatesByGroup(_, _, _, _, _)
RECURSIVE GroupRateStep(_, _, _, _, _, _, _)
GroupRateStep(b, r, table, firsts, g, row, res) ==
    IF res.err # "none" THEN [table |-> table, err |-> res.err]
    ELSE SetRatesByGroup(b, r, WithGroupRate(table, row, AddNA(res.rate, b.premium)) \o <<>>,
                         firsts, g + 1)

SetRatesByGroup(b, r, table, firsts, g) ==
    IF g > Len(firsts) THEN [table |-> table, err |-> "none"]
    ELSE GroupRateStep(b, r, table, firsts, g, table[firsts[g]],
                       get_rate_by_date(r, b.source_rate, table[firsts[g]].date))

\* _set_rates, constant rate: one lookup per instance at its first date
RECURSIVE SetRatesByInstance(_, _, _, _, _)
RECURSIVE InstanceRateStep(_, _, _, _, _, _, _)
InstanceRateStep(b, r, table, firsts, g, row, res) ==
    IF res.err # "none" THEN [table |-> table, err |-> res.err]
    ELSE SetRatesByInstance(b, r, WithInstanceRate(table, row, AddNA(res.rate, b.premium)) \o <<>>,
                            firsts, g + 1)

SetRatesByInstance(b, r, table, firsts, g) ==
    IF g > Len(firsts) THEN [table |-> table, err |-> "none"]
    ELSE InstanceRateStep(b, r, table, firsts, g, table[firsts[g]],
                          get_rate_by_date(r, b.source_rate, table[firsts[g]].date))

\* variant: only period 1 of instance 1 is overridden
OverrideFirstInstance_FirstPeriod(b, res) ==
    IF res.err # "none" THEN res
    ELSE [table |-> [i \in 1..Len(res.table) |->
                        IF res.table[i].instance = 1 /\ res.table[i].period = 1
                        THEN [res.table[i] EXCEPT !.rate = b.initial_rate]
                        ELSE res.table[i]],
          err |-> "none"]

\* itdf.loc[(1,), "rate"] = self.initial_rate
OverrideFirstInstance(b, res) ==
    IF res.err # "none" THEN res
    ELSE [table |-> [i \in 1..Len(res.table) |->
                        IF res.table[i].instance = 1
                        THEN [res.table[i] EXCEPT !.rate = b.initial_rate]
                        ELSE res.table[i]],
          err |-> "none"]

\* variant: period 1 of every instance is overridden
OverrideFirstPeriod_EveryInstance(b, res) ==
    IF res.err # "none" THEN res
    ELSE [table |-> [i \in 1..Len(res.table) |->
                        IF res.table[i].period = 1
                        THEN [res.table[i] EXCEPT !.rate = b.initial_rate]
                        ELSE res.table[i]],
          err |-> "none"]

\* itdf.loc[(1, 1), "rate"] = self.initial_rate
OverrideFirstPeriod(b, res) ==
    IF res.err # "none" THEN res
    ELSE [table |-> [i \in 1..Len(res.table) |->
                        IF res.table[i].instance = 1 /\ res.table[i].period = 1
                        THEN [res.table[i] EXCEPT !.rate = b.initial_rate]
                        ELSE res.table[i]],
          err |-> "none"]

_set_rates(b, r, table) ==
    IF b.constant_rate
    THEN OverrideFirstInstance(b, SetRatesByInstance(b, r, table, InstanceFirstRows(table), 1))
    ELSE OverrideFirstPeriod(b, SetRatesByGroup(b, r, table, GroupFirstRows(table), 1))

Mid(lo, hi) == (lo + hi) \div 2

\* Series.sum() over x[lo..hi], NaN skipped
RECURSIVE SumNA(_, _, _)
SumNA(x, lo, hi) ==
    IF lo > hi THEN 0
    ELSE IF lo = hi THEN (IF x[lo] = NA THEN 0 ELSE x[lo])
    ELSE SumNA(x, lo, Mid(lo, hi)) + SumNA(x, Mid(lo, hi) + 1, hi)

\* the running sums of two adjacent runs, joined
JoinSums(left, right) ==
    left \o [i \in 1..Len(right) |-> right[i] + left[Len(left)]]

\* Series.cumsum() of x[lo..hi] as a sequence, NaN skipped
RECURSIVE RunningSum(_, _, _)
RunningSum(x, lo, hi) ==
    IF lo > hi THEN <<>>
    ELSE IF lo = hi THEN <<IF x[lo] = NA THEN 0 ELSE x[lo]>>
    ELSE JoinSums(RunningSum(x, lo, Mid(lo, hi)), RunningSum(x, Mid(lo, hi) + 1, hi))

Column_interest(table) == [i \in 1..Len(table) |-> table[i].interest] \o <<>>

GroupRows(table, instance, period) ==
    {i \in 1..Len(table) : table[i].instance = instance /\ table[i].period = period}


SumOfRows(x, rows) == IF rows = {} THEN 0 ELSE SumNA(x, SetMin(rows), SetMax(rows))

\* _capitalize: round(sum of the interest of the period, 2), in cents
_capitalize(table, instance, period) ==
    RoundHalfEven(SumOfRows(Column_interest(table), GroupRows(table, instance, period)),
                  1000000)

\* variant: the pairs are taken period by period
PairOf_PeriodMajor(instances, periods, k) ==
    [instance |-> instances[((k - 1) % Len(instances)) + 1],
     period |-> periods[((k - 1) \div Len(instances)) + 1]]

\* the k-th pair of the loops `for instance in instances: for period in periods`
PairOf(instances, periods, k) ==
    [instance |-> instances[((k - 1) \div Len(periods)) + 1],
     period |-> periods[((k - 1) % Len(periods)) + 1]]

\* variant: the capital is carried across a rollover
NextCapital_Carried(b, table, pair, cur_capital) ==
    IF pair.period = 1
    THEN (IF pair.instance = 1 THEN b.initial_capital ELSE cur_capital)
    ELSE IF b.capitalization
         THEN cur_capital + _capitalize(table, pair.instance, pair.period - 1)
         ELSE cur_capital

\* cur_capital after the branch on period == 1 / capitalization
NextCapital(b, table, pair, cur_capital) ==
    IF pair.period = 1 THEN b.initial_capital
    ELSE IF b.capitalization
         THEN cur_capital + _capitalize(table, pair.instance, pair.period - 1)
         ELSE cur_capital

\* itdf.loc[(instance, period), "capital"] = round(cur_capital, 2); an amount
\* in cents is its own rounding to 2 decimals
WithCapital(table, pair, cur) ==
    [table |-> [i \in 1..Len(table) |->
                   IF table[i].instance = pair.instance /\ table[i].period = pair.period
                   THEN [table[i] EXCEPT !.capital = cur]
                   ELSE table[i]],
     cur_capital |-> cur]

\* one step of the generator _set_capital, for the k-th (instance, period)
\* pair of instances x periods: [table, cur_capital]
_set_capital(b, table, k, cur_capital) ==
    WithCapital(table, PairOf(UniqueInstances(table), UniquePeriods(table), k),
                NextCapital(b, table,
                            PairOf(UniqueInstances(table), UniquePeriods(table), k),
                            cur_capital))

NumCapitalSteps(table) == Len(UniqueInstances(table)) * Len(UniquePeriods(table))

\* interest of one day: (rate / 100 / divisor) * capital rounded to 8
\* decimals, NaN when the rate or the capital is NaN
DailyInterest(rate, capital, divisor) ==
    IF rate = NA \/ capital = NA THEN NA
    ELSE RoundHalfEven(rate * capital * 100, divisor)

\* the divisor of a period whose rows are first..last of the table: yearly
\* the days of the year of the day before the period's last date, monthly
\* 12 * (rows of the period - 1)
Divisor_EndYear(b, table, first, last) ==
    IF b.period = Period_yearly
    THEN number_of_days_in_year(YearOf(table[last].date))
    ELSE 12 * ((last - first + 1) - 1)

\* variant: a monthly period is divided by all of its rows
Divisor_AllRows(b, table, first, last) ==
    IF b.period = Period_yearly
    THEN number_of_days_in_year(YearOf(DateMinus(table[last].date, RelativeDate(0, 1))))
    ELSE 12 * (last - first + 1)

Divisor(b, table, first, last) ==
    IF b.period = Period_yearly
    THEN number_of_days_in_year(YearOf(DateMinus(table[last].date, RelativeDate(0, 1))))
    ELSE 12 * ((last - first + 1) - 1)

\* variant: the first day of the period accrues interest as well
WithInterest_FirstDayAccrues(table, k, first, rows, divisor) ==
    [i \in 1..Len(table) |->
        IF i \in rows
        THEN [table[i] EXCEPT !.interest =
                 DailyInterest(table[i].rate, table[i].capital, divisor)]
        ELSE IF k = 1 THEN [table[i] EXCEPT !.interest = 0] ELSE table[i]]

\* the interest column after the step for the period whose rows are `rows`;
\* the first step of the generator (k = 1) first sets the whole column to 0.0
WithInterest(table, k, first, rows, divisor) ==
    [i \in 1..Len(table) |->
        IF i \in rows
        THEN [table[i] EXCEPT !.interest =
                 IF i = first THEN 0
                 ELSE DailyInterest(table[i].rate, table[i].capital, divisor)]
        ELSE IF k = 1 THEN [table[i] EXCEPT !.interest = 0] ELSE table[i]]

InterestOfRows(b, table, k, first, rows) ==
    WithInterest(table, k, first, rows, Divisor(b, table, first, SetMax(rows)))

InterestOfGroup(b, table, k, first) ==
    InterestOfRows(b, table, k, first,
                   GroupRows(table, table[first].instance, table[first].period))

\* one step of the generator _set_interest, for the k-th (instance, period)
\* group.  instance_df and period_df are views of the table: they show the
\* capital that _set_capital wrote since they were taken.
_set_interest(b, table, k) == InterestOfGroup(b, table, k, GroupFirstRows(table)[k])

\* the position, among the instances, of the instance that holds row i
InstanceIndex(firsts, lasts, i) ==
    CHOOSE g \in 1..Len(firsts) : firsts[g] <= i /\ i <= lasts[g]

WithSums(table, firsts, lasts, sums) ==
    [i \in 1..Len(table) |->
        [table[i] EXCEPT !.sum_interest =
            IF table[i].interest = NA THEN NA
            ELSE sums[InstanceIndex(firsts, lasts, i)]
                     [i - firsts[InstanceIndex(firsts, lasts, i)] + 1]]]

InstanceSums(table, firsts, lasts) ==
    WithSums(table, firsts, lasts,
             [g \in 1..Len(firsts) |->
                 RunningSum(Column_interest(table), firsts[g], lasts[g])] \o <<>>)

\* variant: one cumsum over the whole table
_set_cumulative_interest_WholeTable(table) ==
    InstanceSums(table, <<1>>, <<Len(table)>>)

\* _set_cumulative_interest: cumsum of interest inside every instance
_set_cumulative_interest(table) ==
    InstanceSums(table, InstanceFirstRows(table), InstanceLastRows(table))

\* variant: the not-applicable rows are the first 7 and the last 20 rows of
\* the whole table
BuyoutCosts_OfTable(b, table, firsts, lasts) ==
    [i \in 1..Len(table) |->
        [table[i] EXCEPT !.early_buyout_cost =
            IF b.mark_early_buyout_not_applicable
               /\ (i < 1 + 7 \/ i > Len(table) - 20)
            THEN NA
            ELSE IF table[i].sum_interest = NA THEN NA
            ELSE Min(table[i].sum_interest, b.early_buyout_cost)]]

BuyoutCosts(b, table, firsts, lasts) ==
    [i \in 1..Len(table) |->
        [table[i] EXCEPT !.early_buyout_cost =
            IF b.mark_early_buyout_not_applicable
               /\ (i < firsts[InstanceIndex(firsts, lasts, i)] + 7
                   \/ i > lasts[InstanceIndex(firsts, lasts, i)] - 20)
            THEN NA
            ELSE IF table[i].sum_interest = NA THEN NA
            ELSE Min(table[i].sum_interest, b.early_buyout_cost)]]

\* _set_early_buyout_cost: min(sum_interest, early_buyout_cost); with the
\* flag set, the first 7 and the last 20 rows of every instance become NA
_set_early_buyout_cost(b, table) ==
    BuyoutCosts(b, table, InstanceFirstRows(table), InstanceLastRows(table))

\* variant: the premium row is found by its date alone
PremiumRows_ByDate(b, table, firsts) ==
    [i \in 1..Len(table) |->
        [table[i] EXCEPT !.continuation_premium =
            IF \E g \in 2..Len(firsts) : table[i].date = table[firsts[g]].date
            THEN b.continuation_premium ELSE 0]]

PremiumRows(b, table, firsts) ==
    [i \in 1..Len(table) |->
        [table[i] EXCEPT !.continuation_premium =
            IF \E g \in 2..Len(firsts) :
                  /\ table[i].instance = table[firsts[g]].instance
                  /\ table[i].period = 1
                  /\ table[i].date = table[firsts[g]].date
            THEN b.continuation_premium ELSE 0]]

\* _set_continuation_premium: 0.0 everywhere, then the premium on the row
\* (instance, 1, first date of the instance) of every instance but the first
_set_continuation_premium(b, table) == PremiumRows(b, table, InstanceFirstRows(table))

-----------------------------------------------------------------------------
(* Profit aggregator: class Profit                                         *)

\* no Profit object has been constructed
NoProfit == [interest_table |-> <<>>, profits |-> <<>>, state |-> "none"]

\* Profit.__init__: a copy of the ledger, and profits as an empty frame over
\* the index of the ledger
Profit(table) ==
    [interest_table |-> table,
     profits |-> [i \in 1..Len(table) |->
                     [instance |-> table[i].instance, period |-> table[i].period,
                      date |-> table[i].date]],
     state |-> "new"]

\* self.interest_table = self.interest_table[cols]
_select_columns(table) ==
    [i \in 1..Len(table) |->
        [instance |-> table[i].instance, period |-> table[i].period,
         date |-> table[i].date, interest |-> table[i].interest,
         early_buyout_cost |-> table[i].early_buyout_cost,
         continuation_premium |-> table[i].continuation_premium]]

\* early_buyout_cost: NaN -> 0.0
_replace_early_buyout_cost_nan_with_zero(table) ==
    [i \in 1..Len(table) |->
        IF table[i].early_buyout_cost = NA
        THEN [table[i] EXCEPT !.early_buyout_cost = 0] ELSE table[i]]

\* the distinct dates of the rows, ascending (the keys of groupby(level="date"))
DateKeys(table, dates) ==
    SelectSeq([k \in 1..(SetMax(dates) - SetMin(dates) + 1) |-> SetMin(dates) + k - 1],
              LAMBDA d : d \in dates)

\* variant: the values of the last row of the date
MaxAt_Last(table, rows) ==
    [interest |-> table[SetMax(rows)].interest,
     early_buyout_cost |-> table[SetMax(rows)].early_buyout_cost,
     continuation_premium |-> table[SetMax(rows)].continuation_premium]

\* max of a column over the rows of one date; max skips NaN, and NaN is
\* below every number
MaxAt(table, rows) ==
    [interest |-> SetMax({table[i].interest : i \in rows}),
     early_buyout_cost |-> SetMax({table[i].early_buyout_cost : i \in rows}),
     continuation_premium |-> SetMax({table[i].continuation_premium : i \in rows})]

ProfitRow(d, m) ==
    [date |-> d, interest |-> m.interest, early_buyout_cost |-> m.early_buyout_cost,
     continuation_premium |-> m.continuation_premium]

GroupMax(table, keys) ==
    [k \in 1..Len(keys) |->
        ProfitRow(keys[k], MaxAt(table, {i \in 1..Len(table) : table[i].date = keys[k]}))]

\* self.interest_table.groupby(level=["date"]).max()
_set_profits_table(table) ==
    IF Len(table) = 0 THEN <<>>
    ELSE GroupMax(table, DateKeys(table, {table[i].date : i \in 1..Len(table)}))

WithCumulative(profits, si, scp) ==
    [k \in 1..Len(profits) |->
        [date |-> profits[k].date, interest |-> profits[k].interest,
         early_buyout_cost |-> profits[k].early_buyout_cost,
         continuation_premium |-> profits[k].continuation_premium,
         sum_interest |-> IF profits[k].interest = NA THEN NA ELSE si[k],
         sum_continuation_premium |->
             IF profits[k].continuation_premium = NA THEN NA ELSE scp[k]]]

\* the cumsum of interest and of continuation_premium
_set_cumulative_cols(profits) ==
    WithCumulative(profits,
        RunningSum([k \in 1..Len(profits) |-> profits[k].interest], 1, Len(profits)),
        RunningSum([k \in 1..Len(profits) |-> profits[k].continuation_premium],
                   1, Len(profits)))

\* one unit of continuation_premium (0.01) in units of interest (1e-8)
CentScale == 1000000

\* total = sum_interest - early_buyout_cost + sum_continuation_premium
_set_total(profits) ==
    [k \in 1..Len(profits) |->
        [date |-> profits[k].date, interest |-> profits[k].interest,
         early_buyout_cost |-> profits[k].early_buyout_cost,
         continuation_premium |-> profits[k].continuation_premium,
         sum_interest |-> profits[k].sum_interest,
         sum_continuation_premium |-> profits[k].sum_continuation_premium,
         total |-> profits[k].sum_interest - profits[k].early_buyout_cost
                   + CentScale * profits[k].sum_continuation_premium]]

Prepared(table) == _replace_early_buyout_cost_nan_with_zero(_select_columns(table)) \o <<>>

Totals(table) == _set_total(_set_cumulative_cols(_set_profits_table(table) \o <<>>) \o <<>>) \o <<>>

\* variant: the workflow runs on the ledger it was given, not on a copy
SourceLedger_Shared(table) ==
    [i \in 1..Len(table) |->
        IF table[i].early_buyout_cost = NA
        THEN [table[i] EXCEPT !.early_buyout_cost = 0] ELSE table[i]]

\* the ledger the aggregator was built from, after calc_total: __init__ took
\* interest_table.copy(), and the workflow writes to that copy only
SourceLedger(table) == table

\* calc_total: the workflow, one method after the other
calc_total(p) ==
    [interest_table |-> Prepared(p.interest_table),
     profits |-> Totals(Prepared(p.interest_table)),
     state |-> "computed"]

-----------------------------------------------------------------------------
(* Bounds and inputs                                                       *)

MaxInstances == 2
MaxCalls == 2
MaxMaturityMonths == 2
MaxStoreOps == 2
MaxLoopSteps == 4

\* the store of the engine: both series set month by month over
\* 2023-10-01 .. 2026-01-31 with set_rates_periodicaly
StoreStart == Date(2023, 10, 1)
StoreEnd == Date(2026, 1, 31)

StoreMonths == Len(_get_monthly_periods(StoreStart, StoreEnd).starts)

GUSCPI_values == [j \in 1..StoreMonths |-> IF j = 2 THEN -30 ELSE 200 + 25 * (j % 9)]
NBPREF_values == [j \in 1..StoreMonths |-> 575 - 25 * (j % 6)]

StoreData ==
    set_rates_periodicaly(
        set_rates_periodicaly(EmptyData, GUSCPI, ListOf(GUSCPI_values),
                              Period_monthly, StoreStart, StoreEnd).data,
        NBPREF, ListOf(NBPREF_values), Period_monthly, StoreStart, StoreEnd).data

\* Bond.__init__: the terms of the bond
Bond(buy_date, maturity, period, source_rate_name, capitalization, mark_early_buyout_not_applicable, constant_rate) ==
    [buy_date |-> buy_date, maturity |-> maturity, period |-> period,
     initial_rate |-> 500, source_rate |-> source_rate_name, premium |-> 50,
     capitalization |-> capitalization, initial_capital |-> 10000,
     continuation_premium |-> 10, early_buyout_cost |-> 10000000,
     mark_early_buyout_not_applicable |-> mark_early_buyout_not_applicable,
     constant_rate |-> constant_rate]

\* (buy_date, maturity, period): monthly bonds of 1..MaxMaturityMonths
\* months, a bond shorter than its yearly period whose only period ends on
\* 1 January, a bond bought on the last day of a month
SmallTerms ==
    {<<Date(2023, 12, 1), Maturity(m), Period_monthly>> : m \in 1..MaxMaturityMonths}
    \cup {<<Date(2023, 12, 1), Maturity(1), Period_yearly>>,
          <<Date(2024, 1, 31), Maturity(2), Period_monthly>>}

\* a bond whose yearly period does not divide its maturity of 13 months
UnevenTerms == {<<Date(2023, 12, 1), Maturity(13), Period_yearly>>}

\* a bond bought so late that the store has no NBP:REF rate for the first
\* date of its second instance
LateTerms == {<<Date(2026, 1, 15), Maturity(1), Period_monthly>>}

\* a bond with a premium of -0.5 whose second period starts on a day the
\* GUS:CPI lookup reads a negative value, returned as 0
DiscountTerms == {<<Date(2023, 12, 1), Maturity(2), Period_monthly>>}

Bonds ==
    {Bond(t[1], t[2], t[3], n, c, m, k) :
        t \in SmallTerms, n \in {GUSCPI, NBPREF}, c \in BOOLEAN, m \in BOOLEAN, k \in BOOLEAN}
    \cup {Bond(t[1], t[2], t[3], NBPREF, TRUE, TRUE, FALSE) : t \in UnevenTerms}
    \cup {Bond(t[1], t[2], t[3], NBPREF, c, TRUE, k) :
            t \in LateTerms, c \in BOOLEAN, k \in BOOLEAN}
    \cup {[Bond(t[1], t[2], t[3], GUSCPI, c, TRUE, FALSE) EXCEPT !.premium = -50] :
            t \in DiscountTerms, c \in BOOLEAN}

\* no store operation yet
NoStoreCall == [op |-> "none", name |-> "", args |-> <<>>, before |-> EmptyData,
                err |-> "none", rate |-> NA, n |-> 0]

\* no index is being built
NoLoop == [pc |-> "none"]

\* no call yet
NoTillDate == [kind |-> "None", date |-> NoDate, rel |-> RelativeDate(0, 0)]

\* till_date of a call: a RelativeDate of 1..MaxInstances maturities, or a
\* Date five days before the buy date, the buy date itself, or ten days after
TillDates(b) ==
    {[kind |-> "RelativeDate", date |-> NoDate, rel |-> RelMul(k, b.maturity)] :
        k \in 1..MaxInstances}
    \cup {[kind |-> "Date", date |-> b.buy_date + d, rel |-> RelativeDate(0, 0)] :
            d \in {-5, 0, 10}}

-----------------------------------------------------------------------------
(* The engine as a state machine                                           *)

Init ==
    /\ bond \in Bonds
    /\ rates = [RatesInit EXCEPT !.data = StoreData]
    /\ interest_table = None
    /\ pc = "idle"
    /\ frame = [k |-> 0, cur_capital |-> 0, till_date |-> NoTillDate, end_date |-> NoDate,
                before |-> None]
    /\ calls = 0
    /\ raised = "none"
    /\ profit = NoProfit
    /\ store_call = NoStoreCall
    /\ loop = NoLoop

\* The ledger is built and extended first and handed to the aggregator
\* afterwards (engine -> ledger -> aggregator).
\* get_interest_table(till_date) up to the start of the workflow:
\* _solve_till_date and _setup_interest_table; the frame of the call keeps
\* its end_date and the ledger the call found
GetInterestTable(till_date) ==
    /\ pc = "idle"
    /\ calls < MaxCalls
    /\ profit.state = "none"
    /\ calls' = calls + 1
    /\ \E solved \in {_solve_till_date(bond, till_date)} :
           /\ frame' = [frame EXCEPT !.till_date = till_date, !.end_date = solved.end_date,
                                   !.before = interest_table]
           /\ IF solved.err # "none"
              THEN /\ raised' = solved.err
                   /\ UNCHANGED <<interest_table, pc>>
              ELSE /\ raised' = "none"
                   /\ interest_table' = _setup_interest_table(bond, interest_table, solved.end_date)
                   /\ pc' = "set_rates"
    /\ UNCHANGED <<profit, bond, rates, store_call, loop>>

SetRates ==
    /\ pc = "set_rates"
    /\ \E res \in {_set_rates(bond, rates, interest_table)} :
           /\ interest_table' = res.table
           /\ raised' = res.err
           /\ pc' = IF res.err = "none" THEN "calc_capital" ELSE "idle"
    /\ frame' = [frame EXCEPT !.k = 1, !.cur_capital = bond.initial_capital]
    /\ UNCHANGED <<profit, bond, rates, store_call, loop, calls>>

\* _calc_interest_and_capital: zip(_set_capital(), _set_interest()) resumes
\* the two generators in turn, one (instance, period) pair at a time
SetCapital ==
    /\ pc = "calc_capital"
    /\ \E res \in {_set_capital(bond, interest_table, frame.k, frame.cur_capital)} :
           /\ interest_table' = res.table
           /\ frame' = [frame EXCEPT !.cur_capital = res.cur_capital]
    /\ pc' = "calc_interest"
    /\ UNCHANGED <<profit, bond, rates, store_call, loop, calls, raised>>

SetInterest ==
    /\ pc = "calc_interest"
    /\ IF bond.period \notin {Period_yearly, Period_monthly}
       THEN /\ raised' = "TypeError"
            /\ pc' = "idle"
            /\ interest_table' =
                  [i \in 1..Len(interest_table) |-> [interest_table[i] EXCEPT !.interest = 0]]
            /\ UNCHANGED frame
       ELSE /\ interest_table' = _set_interest(bond, interest_table, frame.k)
            /\ frame' = [frame EXCEPT !.k = frame.k + 1]
            /\ pc' = IF frame.k + 1 > NumCapitalSteps(interest_table)
                        \/ frame.k + 1 > Len(GroupFirstRows(interest_table))
                     THEN "cumulative" ELSE "calc_capital"
            /\ UNCHANGED raised
    /\ UNCHANGED <<profit, bond, rates, store_call, loop, calls>>

SetCumulativeInterest ==
    /\ pc = "cumulative"
    /\ interest_table' = _set_cumulative_interest(interest_table)
    /\ pc' = "early_buyout"
    /\ UNCHANGED <<profit, bond, rates, store_call, loop, frame, calls, raised>>

SetEarlyBuyoutCost ==
    /\ pc = "early_buyout"
    /\ interest_table' = _set_early_buyout_cost(bond, interest_table)
    /\ pc' = "continuation"
    /\ UNCHANGED <<profit, bond, rates, store_call, loop, frame, calls, raised>>

SetContinuationPremium ==
    /\ pc = "continuation"
    /\ interest_table' = _set_continuation_premium(bond, interest_table)
    /\ pc' = "idle"
    /\ UNCHANGED <<profit, bond, rates, store_call, loop, frame, calls, raised>>

\* Profit(bond.interest_table) on a ledger a call has returned
NewProfit ==
    /\ pc = "idle"
    /\ calls > 0
    /\ raised = "none"
    /\ interest_table # None
    /\ profit.state = "none"
    /\ profit' = Profit(interest_table)
    /\ UNCHANGED <<bond, rates, store_call, loop, interest_table, pc, frame, calls, raised>>

\* profit.calc_total(till_date); the method does not read till_date
CalcTotal ==
    /\ pc = "idle"
    /\ profit.state # "none"
    /\ profit' = calc_total(profit)
    /\ interest_table' = SourceLedger(interest_table)
    /\ UNCHANGED <<bond, rates, store_call, loop, pc, frame, calls, raised>>

Next ==
    \/ \E till_date \in TillDates(bond) : GetInterestTable(till_date)
    \/ NewProfit
    \/ CalcTotal
    \/ SetRates
    \/ SetCapital
    \/ SetInterest
    \/ SetCumulativeInterest
    \/ SetEarlyBuyoutCost
    \/ SetContinuationPremium

Spec == Init /\ [][Next]_vars

-----------------------------------------------------------------------------
(* The reference rate store as a state machine                             *)

CUSTOM_NAME == "CUSTOM_NAME"

\* a store like the one of test_set_multiple_rates: GUS:CPI month by month
\* over two months, NBP:REF day by day over eleven days inside them
MultipleRates ==
    set_rates_periodicaly(
        set_rates_periodicaly(EmptyData, GUSCPI, ListOf(<<500, 525>>), Period_monthly,
                              Date(2024, 1, 1), Date(2024, 2, 29)).data,
        NBPREF, Scalar(450), Period_daily, Date(2024, 1, 10), Date(2024, 1, 20)).data

\* arguments of set_rates_periodicaly: a daily scalar, a list in daily
\* mode, two months with two values and with one, start after end, no
\* start and no end
PeriodicArgs ==
    {[name |-> NBPREF, values |-> Scalar(475), period |-> Period_daily,
      start |-> Date(2024, 1, 15), end |-> Date(2024, 2, 5)],
     [name |-> NBPREF, values |-> ListOf(<<150, 200>>), period |-> Period_daily,
      start |-> Date(2024, 1, 8), end |-> Date(2024, 1, 22)],
     [name |-> GUSCPI, values |-> ListOf(<<-30, 250>>), period |-> Period_monthly,
      start |-> Date(2024, 2, 10), end |-> Date(2024, 3, 5)],
     [name |-> GUSCPI, values |-> ListOf(<<250>>), period |-> Period_monthly,
      start |-> Date(2024, 2, 10), end |-> Date(2024, 3, 5)],
     [name |-> NBPREF, values |-> Scalar(450), period |-> Period_daily,
      start |-> Date(2024, 1, 20), end |-> Date(2024, 1, 10)],
     [name |-> CUSTOM_NAME, values |-> Scalar(-25), period |-> Period_daily,
      start |-> NoDate, end |-> NoDate]}

\* arguments of set_rates_continuously: two breakpoints, one breakpoint
\* extended to the future, two extended both ways, breakpoints out of
\* order extended to the past, an extended_range of three dates
ContinuousArgs ==
    {[name |-> CUSTOM_NAME, values |-> <<575, 600>>,
      dates |-> <<Date(2024, 1, 5), Date(2024, 1, 25)>>, extended_range |-> NoRange],
     [name |-> CUSTOM_NAME, values |-> <<550>>,
      dates |-> <<Date(2024, 2, 5)>>, extended_range |-> <<NoDate, Date(2024, 3, 10)>>],
     [name |-> NBPREF, values |-> <<675, 650>>,
      dates |-> <<Date(2024, 1, 12), Date(2024, 1, 18)>>,
      extended_range |-> <<Date(2023, 12, 30), Date(2024, 2, 10)>>],
     [name |-> CUSTOM_NAME, values |-> <<300, 325>>,
      dates |-> <<Date(2024, 1, 25), Date(2024, 1, 5)>>,
      extended_range |-> <<Date(2024, 1, 2)>>],
     [name |-> NBPREF, values |-> <<575>>,
      dates |-> <<Date(2024, 1, 5)>>,
      extended_range |-> <<Date(2024, 1, 1), Date(2024, 2, 1), Date(2024, 3, 1)>>]}

ExtendPastArgs ==
    {[name |-> n, date |-> Date(2023, 12, 28)] : n \in {GUSCPI, NBPREF, CUSTOM_NAME}}

ExtendFutureArgs ==
    {[name |-> n, date |-> Date(2024, 3, 10)] : n \in {GUSCPI, NBPREF, CUSTOM_NAME}}

GetArgs ==
    {[name |-> NBPREF, date |-> Date(2024, 1, 13)],
     [name |-> NBPREF, date |-> Date(2024, 2, 6)],
     [name |-> NBPREF, date |-> Date(2024, 3, 20)],
     [name |-> CUSTOM_NAME, date |-> Date(2024, 1, 13)],
     [name |-> CUSTOM_NAME, date |-> Date(2024, 2, 6)],
     [name |-> GUSCPI, date |-> Date(2024, 3, 15)],
     [name |-> GUSCPI, date |-> Date(2024, 4, 20)],
     [name |-> GUSCPI, date |-> Date(2024, 6, 1)]}

\* a store just constructed: Rates() or Rates(init_data)
StoreInit ==
    /\ rates \in {RatesInit, [RatesInit EXCEPT !.data = MultipleRates]}
    /\ store_call = NoStoreCall
    /\ bond = None
    /\ interest_table = None
    /\ pc = "store"
    /\ frame = None
    /\ calls = 0
    /\ raised = "none"
    /\ profit = NoProfit
    /\ loop = NoLoop

StoreReturns(op, name, args, res) ==
    /\ rates' = [rates EXCEPT !.data = res.data]
    /\ store_call' = [op |-> op, name |-> name, args |-> args, before |-> rates.data,
                      err |-> res.err, rate |-> NA, n |-> store_call.n + 1]
    /\ UNCHANGED <<bond, interest_table, pc, frame, calls, raised, profit, loop>>

SetRatesPeriodicaly(a) ==
    /\ pc = "store"
    /\ store_call.n < MaxStoreOps
    /\ \E res \in {set_rates_periodicaly(rates.data, a.name, a.values, a.period, a.start, a.end)} :
           StoreReturns("set_rates_periodicaly", a.name, a, res)

SetRatesContinuously(a) ==
    /\ pc = "store"
    /\ store_call.n < MaxStoreOps
    /\ \E res \in {set_rates_continuously(rates.data, a.name, a.values, a.dates, a.extended_range)} :
           StoreReturns("set_rates_continuously", a.name, a, res)

ExtendRateToPast(a) ==
    /\ pc = "store"
    /\ store_call.n < MaxStoreOps
    /\ \E res \in {extend_rate_to_past(rates.data, a.date, a.name)} :
           StoreReturns("extend_rate_to_past", a.name, a, res)

ExtendRateToFuture(a) ==
    /\ pc = "store"
    /\ store_call.n < MaxStoreOps
    /\ \E res \in {extend_rate_to_future(rates.data, a.date, a.name)} :
           StoreReturns("extend_rate_to_future", a.name, a, res)

\* get_rate_by_date(name, date): the store is read, the call keeps what was
\* returned or raised
GetRateByDate(a) ==
    /\ pc = "store"
    /\ \E res \in {get_rate_by_date(rates, a.name, a.date)} :
           store_call' = [op |-> "get_rate_by_date", name |-> a.name, args |-> a,
                          before |-> rates.data, err |-> res.err, rate |-> res.rate,
                          n |-> store_call.n]
    /\ UNCHANGED <<rates, bond, interest_table, pc, frame, calls, raised, profit, loop>>

StoreNext ==
    \/ \E a \in PeriodicArgs : SetRatesPeriodicaly(a)
    \/ \E a \in ContinuousArgs : SetRatesContinuously(a)
    \/ \E a \in ExtendPastArgs : ExtendRateToPast(a)
    \/ \E a \in ExtendFutureArgs : ExtendRateToFuture(a)
    \/ \E a \in GetArgs : GetRateByDate(a)

StoreSpec == StoreInit /\ [][StoreNext]_vars

\* a call of get_interest_table has returned normally
Filled == pc = "idle" /\ calls > 0 /\ raised = "none" /\ interest_table # None

-----------------------------------------------------------------------------
(* Properties of the ledger                                                *)

\* last row of the k-th (instance, period) group
GroupLastRow(table, firsts, k) ==
    IF k = Len(firsts) THEN Len(table) ELSE firsts[k + 1] - 1

NumInstances(table) == Len(InstanceFirstRows(table))

\* C1: the rows of every (instance, period) are exactly the days from
\* start = buy_date + (instance-1)*maturity + (period-1)*period through
\* min(start + period, buy_date + instance*maturity), both ends included.
C1_PeriodSpans ==
    interest_table # None =>
        \A k \in 1..Len(GroupFirstRows(interest_table)) :
            LET firsts == GroupFirstRows(interest_table)
                a == firsts[k]
                z == GroupLastRow(interest_table, firsts, k)
                i == interest_table[a].instance
                p == interest_table[a].period
                start == DatePlus(DatePlus(bond.buy_date, RelMul(i - 1, bond.maturity)),
                                  RelMul(p - 1, bond.period))
                end == Min(DatePlus(start, bond.period),
                           DatePlus(bond.buy_date, RelMul(i, bond.maturity)))
            IN  /\ interest_table[a].date = start
                /\ interest_table[z].date = end
                /\ \A j \in a..z : interest_table[j].date = start + (j - a)

\* C2: consecutive periods and consecutive instances share exactly one
\* boundary day: the last date of a group is the first date of the next.
C2_SharedBoundaryDay ==
    interest_table # None =>
        \A k \in 1..(Len(GroupFirstRows(interest_table)) - 1) :
            LET firsts == GroupFirstRows(interest_table)
            IN  interest_table[GroupLastRow(interest_table, firsts, k)].date
                    = interest_table[firsts[k + 1]].date

\* C3 as stated: after the fill, the first day of period 1 of every
\* instance carries the initial rate.
C3_InitialRateEveryInstance ==
    Filled =>
        \A g \in 1..NumInstances(interest_table) :
            interest_table[InstanceFirstRows(interest_table)[g]].rate = bond.initial_rate

\* C3 amended: after the fill, the first day of period 1 carries the
\* initial rate in instance 1 and the looked-up rate plus premium in every
\* later instance.
C3_InitialRateFirstInstance ==
    Filled =>
        /\ interest_table[1].rate = bond.initial_rate
        /\ \A g \in 2..NumInstances(interest_table) :
              LET row == interest_table[InstanceFirstRows(interest_table)[g]]
              IN  row.rate = get_rate_by_date(rates, bond.source_rate, row.date).rate
                                + bond.premium

C3_Witness ==
    /\ Filled
    /\ NumInstances(interest_table) >= 2
    /\ interest_table[InstanceFirstRows(interest_table)[2]].rate # bond.initial_rate

\* C4 as stated: on a day that is not the first of its period, interest is
\* round8(rate/100 * capital / divisor), the divisor being the days of the
\* year of the period's end date (yearly) or the days of the period - 1
\* (monthly).
C4_InterestByEndYear ==
    Filled =>
        \A k \in 1..Len(GroupFirstRows(interest_table)) :
            LET firsts == GroupFirstRows(interest_table)
                a == firsts[k]
                z == GroupLastRow(interest_table, firsts, k)
                divisor == IF bond.period = Period_yearly
                           THEN number_of_days_in_year(YearOf(interest_table[z].date))
                           ELSE (z - a + 1) - 1
            IN  \A j \in (a + 1)..z :
                    interest_table[j].interest =
                        RoundHalfEven(interest_table[j].rate * interest_table[j].capital * 100,
                                      divisor)

\* C4 amended: the divisor is the days of the year that holds the day
\* before the period's end date (yearly) or 12 times the days of the
\* period - 1 (monthly).
C4_InterestByDayBeforeEnd ==
    Filled =>
        \A k \in 1..Len(GroupFirstRows(interest_table)) :
            LET firsts == GroupFirstRows(interest_table)
                a == firsts[k]
                z == GroupLastRow(interest_table, firsts, k)
                divisor == IF bond.period = Period_yearly
                           THEN number_of_days_in_year(YearOf(interest_table[z].date - 1))
                           ELSE 12 * ((z - a + 1) - 1)
            IN  \A j \in (a + 1)..z :
                    interest_table[j].interest =
                        RoundHalfEven(interest_table[j].rate * interest_table[j].capital * 100,
                                      divisor)

\* a filled yearly period that ends on 1 January of a leap year
C4_Witness ==
    /\ Filled
    /\ bond.period = Period_yearly
    /\ MonthOf(interest_table[Len(interest_table)].date) = 1
    /\ DayOf(interest_table[Len(interest_table)].date) = 1
    /\ number_of_days_in_year(YearOf(interest_table[Len(interest_table)].date)) = 366
    /\ interest_table[Len(interest_table)].interest > 0

\* C5: after the fill, interest is 0 on the first day of every (instance,
\* period) group, the boundary day shared with the preceding group included.
C5_FirstDayInterestZero ==
    Filled =>
        \A k \in 1..Len(GroupFirstRows(interest_table)) :
            interest_table[GroupFirstRows(interest_table)[k]].interest = 0

\* the first day of a group is the last day of the group before it, where
\* interest did accrue
C5_Witness ==
    /\ Filled
    /\ \E k \in 2..Len(GroupFirstRows(interest_table)) :
          LET a == GroupFirstRows(interest_table)[k]
          IN  /\ interest_table[a - 1].date = interest_table[a].date
              /\ interest_table[a - 1].interest > 0
              /\ interest_table[a].interest = 0

\* C6: capital is constant over a period; period 1 of every instance has
\* initial_capital; a later period has the capital of the period before it
\* plus, with capitalization only, that period's interest rounded to 2
\* decimals; without capitalization every row has initial_capital.
C6_CapitalRecurrence ==
    Filled =>
        /\ \A k \in 1..Len(GroupFirstRows(interest_table)) :
              LET firsts == GroupFirstRows(interest_table)
                  a == firsts[k]
                  z == GroupLastRow(interest_table, firsts, k)
              IN  /\ \A j \in a..z : interest_table[j].capital = interest_table[a].capital
                  /\ interest_table[a].period = 1
                        => interest_table[a].capital = bond.initial_capital
                  /\ interest_table[a].period > 1
                        => interest_table[a].capital =
                              interest_table[a - 1].capital
                              + (IF bond.capitalization
                                 THEN RoundHalfEven(
                                         SumNA(Column_interest(interest_table),
                                               firsts[k - 1], a - 1), 1000000)
                                 ELSE 0)
        /\ ~bond.capitalization
              => \A j \in 1..Len(interest_table) :
                    interest_table[j].capital = bond.initial_capital

\* capitalization raised the capital of a later period, and the next
\* instance started again from initial_capital
C6_Witness ==
    /\ Filled
    /\ bond.capitalization
    /\ \E j \in 2..Len(interest_table) :
          /\ interest_table[j - 1].capital > bond.initial_capital
          /\ interest_table[j].instance = interest_table[j - 1].instance + 1
          /\ interest_table[j].capital = bond.initial_capital

\* C7: sum_interest is the running sum of interest inside the instance: 0 on
\* the first row of an instance, and on every other row the sum_interest of
\* the row before it plus the row's interest.
C7_RunningSumPerInstance ==
    Filled =>
        \A j \in 1..Len(interest_table) :
            IF j = 1 \/ interest_table[j].instance # interest_table[j - 1].instance
            THEN interest_table[j].sum_interest = 0
            ELSE interest_table[j].sum_interest =
                    interest_table[j - 1].sum_interest + interest_table[j].interest

C7_Witness ==
    /\ Filled
    /\ \E j \in 2..Len(interest_table) :
          /\ interest_table[j].instance # interest_table[j - 1].instance
          /\ interest_table[j - 1].sum_interest > 0
          /\ interest_table[j].sum_interest = 0
          /\ j < Len(interest_table)
          /\ interest_table[Len(interest_table)].sum_interest > 0

\* C8: early_buyout_cost is min(sum_interest, flat cost); with the flag set
\* it is not-applicable exactly on the rows dated in the first 7 or the last
\* 20 calendar days of their instance, the maturity day
\* buy_date + instance*maturity included.
C8_EarlyBuyoutCost ==
    Filled =>
        \A g \in 1..NumInstances(interest_table) :
            LET a == InstanceFirstRows(interest_table)[g]
                z == InstanceLastRows(interest_table)[g]
                i == interest_table[a].instance
                first_day == DatePlus(bond.buy_date, RelMul(i - 1, bond.maturity))
                maturity_day == DatePlus(bond.buy_date, RelMul(i, bond.maturity))
            IN  \A j \in a..z :
                    IF bond.mark_early_buyout_not_applicable
                       /\ \/ /\ first_day <= interest_table[j].date
                             /\ interest_table[j].date <= first_day + 6
                          \/ /\ maturity_day - 19 <= interest_table[j].date
                             /\ interest_table[j].date <= maturity_day
                    THEN interest_table[j].early_buyout_cost = NA
                    ELSE interest_table[j].early_buyout_cost =
                            Min(interest_table[j].sum_interest, bond.early_buyout_cost)

\* C9: continuation_premium is the configured amount on the first row of
\* every instance but the first and 0 on every other row, so it sums to
\* (instances - 1) times the amount.
C9_ContinuationPremium ==
    Filled =>
        /\ \A j \in 1..Len(interest_table) :
              interest_table[j].continuation_premium =
                  IF j > 1 /\ interest_table[j].instance # interest_table[j - 1].instance
                  THEN bond.continuation_premium ELSE 0
        /\ SumNA([j \in 1..Len(interest_table) |-> interest_table[j].continuation_premium],
                 1, Len(interest_table))
              = (NumInstances(interest_table) - 1) * bond.continuation_premium

\* the boundary day of a rollover: premium on the new instance's row only
C9_Witness ==
    /\ Filled
    /\ \E j \in 2..Len(interest_table) :
          /\ interest_table[j].instance # interest_table[j - 1].instance
          /\ interest_table[j].date = interest_table[j - 1].date
          /\ interest_table[j].continuation_premium = bond.continuation_premium
          /\ interest_table[j - 1].continuation_premium = 0

\* C10: with constant_rate false every row of an (instance, period) group
\* carries get_rate_by_date at the group's first date plus the premium,
\* except the rows of (1, 1), which carry the initial rate.
C10_VariableRates ==
    (Filled /\ ~bond.constant_rate) =>
        \A k \in 1..Len(GroupFirstRows(interest_table)) :
            LET firsts == GroupFirstRows(interest_table)
                a == firsts[k]
                z == GroupLastRow(interest_table, firsts, k)
                expected == IF k = 1 THEN bond.initial_rate
                            ELSE get_rate_by_date(rates, bond.source_rate,
                                                  interest_table[a].date).rate
                                 + bond.premium
            IN  \A j \in a..z : interest_table[j].rate = expected

\* a later group whose looked-up rate was negative and read as 0
C10_Witness ==
    /\ Filled
    /\ ~bond.constant_rate
    /\ \E j \in 2..Len(interest_table) :
          /\ interest_table[j].rate = bond.premium
          /\ interest_table[j].rate # bond.initial_rate
    /\ \E j \in 2..Len(interest_table) :
          interest_table[j].rate \notin {bond.premium, bond.initial_rate}

\* C11: with constant_rate true the rate is uniform over an instance: every
\* row of instance 1 carries the initial rate, every row of a later instance
\* get_rate_by_date at the first date of the instance plus the premium.
C11_ConstantRates ==
    (Filled /\ bond.constant_rate) =>
        \A g \in 1..NumInstances(interest_table) :
            LET a == InstanceFirstRows(interest_table)[g]
                z == InstanceLastRows(interest_table)[g]
                expected == IF g = 1 THEN bond.initial_rate
                            ELSE get_rate_by_date(rates, bond.source_rate,
                                                  interest_table[a].date).rate
                                 + bond.premium
            IN  \A j \in a..z : interest_table[j].rate = expected

\* two instances of several periods each; the later one does not carry the
\* initial rate
C11_Witness ==
    /\ Filled
    /\ bond.constant_rate
    /\ NumInstances(interest_table) >= 2
    /\ interest_table[Len(interest_table)].period >= 2
    /\ interest_table[Len(interest_table)].rate # bond.initial_rate
    /\ interest_table[Len(interest_table)].rate
          = interest_table[InstanceFirstRows(interest_table)[2]].rate

\* C12: after the first get_interest_table(till_date) of an engine the
\* ledger holds the smallest number n >= 1 of instances with
\* buy_date + n*maturity >= till_date, every calendar day from buy_date
\* through till_date is present, and the ledger ends on the maturity day
\* buy_date + n*maturity.
C12_WholeInstances ==
    (Filled /\ frame.before = None) =>
        LET n == NumInstances(interest_table)
            end_date == frame.end_date
        IN  /\ n >= 1
            /\ DatePlus(bond.buy_date, RelMul(n, bond.maturity)) >= end_date
            /\ n > 1 => DatePlus(bond.buy_date, RelMul(n - 1, bond.maturity)) < end_date
            /\ \A d \in bond.buy_date..end_date :
                  \E j \in 1..Len(interest_table) : interest_table[j].date = d
            /\ interest_table[Len(interest_table)].date
                  = DatePlus(bond.buy_date, RelMul(n, bond.maturity))

\* the (instance, period, date) keys of a ledger
KeySet(table) ==
    {<<table[i].instance, table[i].period, table[i].date>> : i \in 1..Len(table)}

\* C13: over any sequence of calls the key set of the ledger only grows:
\* every step keeps every key, and a call whose end_date the ledger already
\* covers leaves the key set as it was.
C13_KeysOnlyGrow ==
    [][/\ KeySet(interest_table) \subseteq KeySet(interest_table')
       /\ (/\ calls' = calls + 1
           /\ raised' = "none"
           /\ interest_table # None
           /\ frame'.end_date <= interest_table[Len(interest_table)].date)
          => KeySet(interest_table') = KeySet(interest_table)]_vars

\* a second call extended the ledger of the first by a whole instance
C13_Witness ==
    /\ Filled
    /\ calls = 2
    /\ frame.before # None
    /\ Len(interest_table) > Len(frame.before)
    /\ KeySet(frame.before) \subseteq KeySet(interest_table)
    /\ NumInstances(interest_table) = NumInstances(frame.before) + 1

\* C14: with the store unchanged, a further call of get_interest_table that
\* returns leaves every row the ledger had before the call with the same
\* values in all six columns, with capitalization as without.
C14_RerunKeepsValues ==
    (Filled /\ frame.before # None) =>
        /\ Len(frame.before) <= Len(interest_table)
        /\ \A i \in 1..Len(frame.before) : interest_table[i] = frame.before[i]

\* a re-run with capitalization that extended a ledger whose later period
\* had capitalized interest and whose last rows were not-applicable
C14_Witness ==
    /\ Filled
    /\ calls = 2
    /\ frame.before # None
    /\ bond.capitalization
    /\ Len(interest_table) > Len(frame.before)
    /\ frame.before[Len(frame.before)].capital > bond.initial_capital
    /\ frame.before[Len(frame.before)].early_buyout_cost = NA
    /\ interest_table[Len(frame.before)] = frame.before[Len(frame.before)]

\* C15: when get_interest_table raises, the ledger is left as the call found
\* it, with the same keys and the same value in every column.
C15_NoPartialState ==
    (pc = "idle" /\ raised # "none") => interest_table = frame.before

\* C16: a Date that is not strictly after buy_date fails with a validation
\* error and the ledger stays as the call found it; a Date after buy_date is
\* the end date as it is; a RelativeDate resolves to buy_date + offset.
C16_SolveTillDate ==
    calls > 0 =>
        IF frame.till_date.kind = "Date"
        THEN IF frame.till_date.date <= bond.buy_date
             THEN /\ raised = "AssertionError"
                  /\ pc = "idle"
                  /\ interest_table = frame.before
             ELSE /\ raised # "AssertionError"
                  /\ frame.end_date = frame.till_date.date
        ELSE /\ raised # "AssertionError"
             /\ frame.end_date = DatePlus(bond.buy_date, frame.till_date.rel)

\* a call with the buy date itself, on an engine that has a ledger
C16_Witness ==
    /\ calls = 2
    /\ frame.till_date.kind = "Date"
    /\ frame.till_date.date = bond.buy_date
    /\ raised = "AssertionError"
    /\ frame.before # None
    /\ interest_table = frame.before

\* C17: the table calc_total returns has one row per distinct date of the
\* ledger of the aggregator, ascending by date, and interest,
\* early_buyout_cost (not-applicable counted as 0) and continuation_premium
\* of a date are each the maximum of the column over the rows of that date.
C17_PerDateMaximum ==
    profit.state = "computed" =>
        /\ \A k \in 1..(Len(profit.profits) - 1) :
              profit.profits[k].date < profit.profits[k + 1].date
        /\ {profit.profits[k].date : k \in 1..Len(profit.profits)}
              = {profit.interest_table[i].date : i \in 1..Len(profit.interest_table)}
        /\ \A k \in 1..Len(profit.profits) :
              LET rows == {i \in 1..Len(profit.interest_table) :
                              profit.interest_table[i].date = profit.profits[k].date}
              IN  /\ \A i \in rows :
                        /\ profit.interest_table[i].interest <= profit.profits[k].interest
                        /\ (IF profit.interest_table[i].early_buyout_cost = NA THEN 0
                            ELSE profit.interest_table[i].early_buyout_cost)
                              <= profit.profits[k].early_buyout_cost
                        /\ profit.interest_table[i].continuation_premium
                              <= profit.profits[k].continuation_premium
                  /\ \E i \in rows :
                        profit.interest_table[i].interest = profit.profits[k].interest
                  /\ \E i \in rows :
                        (IF profit.interest_table[i].early_buyout_cost = NA THEN 0
                         ELSE profit.interest_table[i].early_buyout_cost)
                           = profit.profits[k].early_buyout_cost
                  /\ \E i \in rows :
                        profit.interest_table[i].continuation_premium
                           = profit.profits[k].continuation_premium

\* the boundary day of a rollover: its profit row has the interest of the
\* old instance's row and the premium of the new instance's row
C17_Witness ==
    /\ profit.state = "computed"
    /\ Len(profit.profits) < Len(profit.interest_table)
    /\ \E k \in 1..Len(profit.profits) :
          /\ profit.profits[k].interest > 0
          /\ profit.profits[k].continuation_premium > 0
    /\ \E k \in 1..Len(profit.profits) :
          /\ profit.profits[k].early_buyout_cost = 0
          /\ profit.profits[k].sum_interest > 0

\* C18: in a completed ledger, among the rows of one date at most one has
\* interest other than 0 and at most one has continuation_premium other than
\* 0; so the last sum_interest and the last sum_continuation_premium of the
\* profit curve are the sums of the two columns over all rows of the ledger.
C18_MaximumLosesNothing ==
    /\ Filled =>
          \A i \in 1..Len(interest_table) : \A j \in (i + 1)..Len(interest_table) :
              interest_table[i].date = interest_table[j].date
                 => /\ interest_table[i].interest = 0 \/ interest_table[j].interest = 0
                    /\ \/ interest_table[i].continuation_premium = 0
                       \/ interest_table[j].continuation_premium = 0
    /\ profit.state = "computed" =>
          /\ profit.profits[Len(profit.profits)].sum_interest
                = SumNA([i \in 1..Len(profit.interest_table) |->
                            profit.interest_table[i].interest],
                        1, Len(profit.interest_table))
          /\ profit.profits[Len(profit.profits)].sum_continuation_premium
                = SumNA([i \in 1..Len(profit.interest_table) |->
                            profit.interest_table[i].continuation_premium],
                        1, Len(profit.interest_table))

\* C19: in the profit curve sum_interest is non-decreasing in date.
C19_SumInterestMonotone ==
    profit.state = "computed" =>
        \A k \in 1..(Len(profit.profits) - 1) :
            /\ profit.profits[k].date < profit.profits[k + 1].date
            /\ profit.profits[k].sum_interest <= profit.profits[k + 1].sum_interest

-----------------------------------------------------------------------------
(* Construction of an engine and the counting loops of                     *)
(* _create_interest_table_index, one iteration at a time                   *)

NoKwargs == [k \in {} |-> 0]

\* Maturity(...) of no argument, of 0..MaxMaturityMonths months, of 0 or 1
\* year, of both
MaturityKwargs ==
    {NoKwargs}
    \cup {[months |-> m] : m \in 0..MaxMaturityMonths}
    \cup {[years |-> y] : y \in 0..1}
    \cup {[years |-> y, months |-> m] : y \in 0..1, m \in 0..1}

\* the reset period: Period.monthly, Period.yearly, Period.daily, an offset
\* of no days, RelativeDate() of no argument
PeriodKwargs == {[months |-> 1], [years |-> 1], [days |-> 1], [days |-> 0], NoKwargs}

BuyDates == {Date(2023, 12, 1), Date(2024, 1, 31)}

\* till_date of a call on the engine just constructed: a Date before and
\* after the buy date, a RelativeDate of one or two months or of no days
IndexTillDates ==
    IF loop.pc # "constructed" THEN {}
    ELSE {[kind |-> "Date", date |-> bond.buy_date + d, rel |-> RelativeDate(0, 0)] :
             d \in {-5, 40}}
         \cup {[kind |-> "RelativeDate", date |-> NoDate,
                rel |-> RelativeDate__init__(kw).rel] :
                  kw \in {[months |-> 1], [months |-> 2], [days |-> 0]}}

\* no engine yet
IndexInit ==
    /\ loop = NoLoop
    /\ bond = None
    /\ rates = RatesInit
    /\ interest_table = None
    /\ pc = "index"
    /\ frame = None
    /\ calls = 0
    /\ raised = "none"
    /\ profit = NoProfit
    /\ store_call = NoStoreCall

\* Bond(maturity=Maturity(**mk), period=RelativeDate(**pk), buy_date=...):
\* the offsets are constructed first; the engine checks neither
NewBond(buy_date, mk, pk) ==
    /\ pc = "index"
    /\ loop.pc = "none"
    /\ \E m \in {Maturity__init__(mk)}, p \in {RelativeDate__init__(pk)} :
           IF m.err # "none" \/ p.err # "none"
           THEN /\ loop' = [pc |-> "raised", err |-> "TypeError", maturity_kwargs |-> mk,
                            period_kwargs |-> pk]
                /\ UNCHANGED bond
           ELSE /\ loop' = [pc |-> "constructed", err |-> "none", maturity_kwargs |-> mk,
                            period_kwargs |-> pk]
                /\ bond' = Bond(buy_date, m.rel, p.rel, NBPREF, FALSE, FALSE, FALSE)
    /\ UNCHANGED <<rates, interest_table, pc, frame, calls, raised, profit, store_call>>

\* get_interest_table(till_date) up to the first loop of
\* _create_interest_table_index: periods_per_maturity = 0, cur_date = start_date
CreateIndex(till_date) ==
    /\ pc = "index"
    /\ loop.pc = "constructed"
    /\ \E solved \in {_solve_till_date(bond, till_date)} :
           loop' = IF solved.err # "none"
                   THEN [loop EXCEPT !.pc = "raised", !.err = solved.err]
                   ELSE [pc |-> "periods_loop", err |-> "none",
                         maturity_kwargs |-> loop.maturity_kwargs,
                         period_kwargs |-> loop.period_kwargs,
                         end_date |-> solved.end_date, cur_date |-> bond.buy_date,
                         periods_per_maturity |-> 0,
                         instances_per_request_date_range |-> 0]
    /\ UNCHANGED <<bond, rates, interest_table, pc, frame, calls, raised, profit, store_call>>

\* a counter of iterations, held up to MaxLoopSteps
Counted(n) == IF n < MaxLoopSteps THEN n + 1 ELSE MaxLoopSteps

\* while cur_date < (start_date + maturity): periods_per_maturity += 1;
\* cur_date += period.  When the test fails the second loop is entered.
PeriodsLoop ==
    /\ pc = "index"
    /\ loop.pc = "periods_loop"
    /\ loop' = IF loop.cur_date < DatePlus(bond.buy_date, bond.maturity)
               THEN [loop EXCEPT !.periods_per_maturity = Counted(@),
                                 !.cur_date = DatePlus(@, bond.period)]
               ELSE [loop EXCEPT !.pc = "instances_loop", !.cur_date = bond.buy_date]
    /\ UNCHANGED <<bond, rates, interest_table, pc, frame, calls, raised, profit, store_call>>

\* while cur_date < end_date: instances_per_request_date_range += 1;
\* cur_date += maturity.  When the test fails the index is built.
InstancesLoop ==
    /\ pc = "index"
    /\ loop.pc = "instances_loop"
    /\ loop' = IF loop.cur_date < loop.end_date
               THEN [loop EXCEPT !.instances_per_request_date_range = Counted(@),
                                 !.cur_date = DatePlus(@, bond.maturity)]
               ELSE [loop EXCEPT !.pc = "done"]
    /\ UNCHANGED <<bond, rates, interest_table, pc, frame, calls, raised, profit, store_call>>

IndexNext ==
    \/ \E buy_date \in BuyDates, mk \in MaturityKwargs, pk \in PeriodKwargs :
           NewBond(buy_date, mk, pk)
    \/ \E till_date \in IndexTillDates : CreateIndex(till_date)
    \/ PeriodsLoop
    \/ InstancesLoop

IndexSpec == IndexInit /\ [][IndexNext]_vars

\* the interpreter runs on: an iteration of a loop that can be taken is taken
FairIndexSpec == IndexSpec /\ WF_vars(PeriodsLoop) /\ WF_vars(InstancesLoop)

-----------------------------------------------------------------------------
(* Claims about the reference rate store                                   *)

\* the days on which the series has a value
ValidDays(data, name) ==
    IF name \notin DOMAIN data.cols THEN {}
    ELSE {d \in data.lo..data.hi : data.cols[name][d] # NA}

\* Series.first_valid_index() .. Series.last_valid_index(): the range
\* populated for the series
InPopulatedRange(data, name, day) ==
    /\ ValidDays(data, name) # {}
    /\ day >= SetMin(ValidDays(data, name))
    /\ day <= SetMax(ValidDays(data, name))

\* the source day of the lookup the store has just answered
SourceDay == RateGetMethod(MethodOf(rates, store_call.name), store_call.args.date)

\* C21: get_rate_by_date(name, date) raises a lookup error (KeyError)
\* whenever the source day is outside the range populated for the series,
\* also when the day is in the store's index because another series covers
\* it, and a lookup that returns never returns an undefined value (NaN).
C21_LookupErrorOutsidePopulated ==
    store_call.op = "get_rate_by_date" =>
        /\ ~InPopulatedRange(rates.data, store_call.name, SourceDay)
               => store_call.err = "KeyError"
        /\ store_call.err = "none" => store_call.rate # NA

\* the lookup the store has just answered is for a name without a
\* registered convention
UnregisteredLookup ==
    /\ store_call.op = "get_rate_by_date"
    /\ store_call.name \notin DOMAIN rates.methods_dict

\* C22 (as stated): a lookup under an unregistered name returns (or raises)
\* what the lookup of the configured default series returns for the same
\* date.
C22_DefaultSeriesValue ==
    UnregisteredLookup =>
        [err |-> store_call.err, rate |-> store_call.rate]
            = get_rate_by_date(rates, rates.default_method, store_call.args.date)

\* the day the default convention reads for the date of the lookup
DefaultSourceDay == RateGetMethod(rates.default_method, store_call.args.date)

\* C22 (amended): a lookup under an unregistered name reads the named
\* series itself on the source day of the default convention: it returns
\* the value the store holds there (a negative one as 0, an unpopulated one
\* as NaN) and raises KeyError when the store has no such column or day.
C22_DefaultConvention ==
    UnregisteredLookup =>
        IF /\ store_call.name \in DOMAIN rates.data.cols
           /\ DefaultSourceDay >= rates.data.lo
           /\ DefaultSourceDay <= rates.data.hi
        THEN /\ store_call.err = "none"
             /\ \E cell \in {rates.data.cols[store_call.name][DefaultSourceDay]} :
                    store_call.rate = IF cell # NA /\ cell < 0 THEN 0 ELSE cell
        ELSE store_call.err = "KeyError"

\* a value of the custom series was returned on a day on which the default
\* series holds another value
C22_Witness ==
    /\ UnregisteredLookup
    /\ store_call.err = "none"
    /\ store_call.rate # NA
    /\ rates.default_method \in DOMAIN rates.data.cols
    /\ rates.data.cols[rates.default_method][DefaultSourceDay] # NA
    /\ rates.data.cols[rates.default_method][DefaultSourceDay] # store_call.rate

\* C23: extend_rate_to_future(date, name) makes every day from the series'
\* last populated day through date read the series' last known value, and
\* extend_rate_to_past(date, name) makes every day from date through the
\* series' first populated day read its first known value, also on a store
\* whose date range is wider than the range populated for the series.
C23_ExtendCarriesKnownValue ==
    /\ (/\ store_call.op = "extend_rate_to_future"
        /\ store_call.err = "none"
        /\ ValidDays(store_call.before, store_call.name) # {})
           => \E last \in {SetMax(ValidDays(store_call.before, store_call.name))} :
                  \A d \in last..store_call.args.date :
                      rates.data.cols[store_call.name][d]
                          = store_call.before.cols[store_call.name][last]
    /\ (/\ store_call.op = "extend_rate_to_past"
        /\ store_call.err = "none"
        /\ ValidDays(store_call.before, store_call.name) # {})
           => \E first \in {SetMin(ValidDays(store_call.before, store_call.name))} :
                  \A d \in store_call.args.date..first :
                      rates.data.cols[store_call.name][d]
                          = store_call.before.cols[store_call.name][first]

\* the dates of the call are strictly increasing, one value for each
IncreasingBreakpoints(a) ==
    /\ Len(a.values) = Len(a.dates)
    /\ \A i \in 1..(Len(a.dates) - 1) : a.dates[i] < a.dates[i + 1]

\* C24: after set_rates_continuously(name, values, dates) with strictly
\* increasing dates, every day from a breakpoint up to the day before the
\* next breakpoint reads the value of the first of the two (the next
\* breakpoint itself reads the next value), and every day from the last
\* breakpoint to the last day of the store reads the last value.
C24_ContinuousSegments ==
    (/\ store_call.op = "set_rates_continuously"
     /\ store_call.err = "none"
     /\ IncreasingBreakpoints(store_call.args))
        => \A i \in 1..Len(store_call.args.dates) :
               \A d \in store_call.args.dates[i]..
                        (IF i < Len(store_call.args.dates)
                         THEN store_call.args.dates[i + 1] - 1
                         ELSE rates.data.hi) :
                   rates.data.cols[store_call.name][d] = store_call.args.values[i]

\* two breakpoints were set in a store that ends after the last of them
C24_Witness ==
    /\ store_call.op = "set_rates_continuously"
    /\ store_call.err = "none"
    /\ IncreasingBreakpoints(store_call.args)
    /\ Len(store_call.args.dates) = 2
    /\ store_call.args.extended_range = NoRange
    /\ rates.data.hi > store_call.args.dates[2]
    /\ rates.data.cols[store_call.name][store_call.args.dates[2] - 1] = store_call.args.values[1]
    /\ rates.data.cols[store_call.name][rates.data.hi] = store_call.args.values[2]

StoreWrites ==
    {"set_rates_periodicaly", "set_rates_continuously",
     "extend_rate_to_past", "extend_rate_to_future"}

\* C25: after any sequence of set_rates_periodicaly, set_rates_continuously,
\* extend_rate_to_past and extend_rate_to_future calls the rows of the
\* store are one run of consecutive days and every series has a cell for
\* each of them; a call never moves the first day later nor the last day
\* earlier, and no value that was populated becomes undefined.
C25_StoreOnlyGrows ==
    /\ rates.data.hi >= rates.data.lo - 1
    /\ \A n \in DOMAIN rates.data.cols : DOMAIN rates.data.cols[n] = rates.data.lo..rates.data.hi
    /\ (store_call.op \in StoreWrites /\ IndexLen(store_call.before) > 0)
           => /\ rates.data.lo <= store_call.before.lo
              /\ rates.data.hi >= store_call.before.hi
              /\ \A n \in DOMAIN store_call.before.cols :
                     /\ n \in DOMAIN rates.data.cols
                     /\ \A d \in store_call.before.lo..store_call.before.hi :
                            store_call.before.cols[n][d] # NA => rates.data.cols[n][d] # NA

\* a call on a populated store has moved the first day of the store earlier
\* and has written inside the range the store had
C25_Witness ==
    /\ store_call.op \in StoreWrites
    /\ store_call.n = 2
    /\ IndexLen(store_call.before) > 0
    /\ rates.data.lo < store_call.before.lo
    /\ \E n \in DOMAIN store_call.before.cols :
           \E d \in store_call.before.lo..store_call.before.hi :
               /\ store_call.before.cols[n][d] # NA
               /\ rates.data.cols[n][d] # store_call.before.cols[n][d]

\* C30: a set_rates_periodicaly call rejected with a validation error
\* (start not before end, a value count other than the period count, a
\* list of values in daily mode) leaves the store as it was before the
\* call: the same date range and the same values of every series.
C30_RejectedCallKeepsStore ==
    (store_call.op = "set_rates_periodicaly" /\ store_call.err = "AssertionError")
        => rates.data = store_call.before

-----------------------------------------------------------------------------
(* Claims about construction and termination                               *)

ZeroOffset == RelativeDate(0, 0)

\* C26: every RelativeDate and Maturity that is constructed has a non-zero
\* component: the constructor raises TypeError when every argument is
\* omitted, and no offset of zero length can be constructed.
C26_NonZeroOffset ==
    loop.pc # "none" =>
        IF loop.pc = "raised" /\ loop.err = "TypeError"
        THEN DOMAIN loop.maturity_kwargs = {} \/ DOMAIN loop.period_kwargs = {}
        ELSE /\ DOMAIN loop.maturity_kwargs # {}
             /\ DOMAIN loop.period_kwargs # {}
             /\ bond.maturity # ZeroOffset
             /\ bond.period # ZeroOffset

\* C27: get_interest_table terminates for every engine that can be
\* constructed and every till_date it accepts: once the counting loops of
\* _create_interest_table_index are entered, both reach their bound.
C27_LoopsTerminate == (loop.pc = "periods_loop") ~> (loop.pc = "done")

-----------------------------------------------------------------------------
(* Claims about the fill of capital and interest                           *)

\* the (instance, period) pair of the k-th step of the fill
FillPair(table, k) == PairOf(UniqueInstances(table), UniquePeriods(table), k)

\* the (instance, period) pair of the k-th group of rows of the ledger
GroupKey(table, k) ==
    [instance |-> table[GroupFirstRows(table)[k]].instance,
     period |-> table[GroupFirstRows(table)[k]].period]

\* pair a comes before pair b, instance first, period second
PairBefore(a, b) ==
    a.instance < b.instance \/ (a.instance = b.instance /\ a.period < b.period)

\* row r of the ledger belongs to the pair
InPair(r, pair) == r.instance = pair.instance /\ r.period = pair.period

\* the step of _set_capital for the pair: its capital is written, the
\* interest of the period before it is there, no interest changes
CapitalStepOf(pair, before, after) ==
    \A i \in 1..Len(before) :
        /\ InPair(before[i], pair) => after[i].capital # NA
        /\ InPair(before[i], [pair EXCEPT !.period = @ - 1]) => before[i].interest # NA
        /\ after[i].interest = before[i].interest

\* the step of _set_interest for the pair: its capital was written, its
\* interest is written, the capital and the interest of the pairs before it
\* stay
InterestStepOf(pair, before, after) ==
    \A i \in 1..Len(before) :
        /\ after[i].capital = before[i].capital
        /\ InPair(before[i], pair) => (before[i].capital # NA /\ after[i].interest # NA)
        /\ PairBefore([instance |-> before[i].instance, period |-> before[i].period], pair)
               => after[i].interest = before[i].interest

AllWritten(table) ==
    \A i \in 1..Len(table) : table[i].capital # NA /\ table[i].interest # NA

\* C28: the fill takes the (instance, period) pairs instance by instance
\* and period by period in both generators.  The step of _set_capital for a
\* pair writes its capital before the step of _set_interest for the same
\* pair reads it; the interest of the period before is written when the
\* capital reads its sum, and no later step of the fill changes it; the two
\* generators take the same number of steps, and when the fill ends every
\* row has a capital and an interest.
C28_FillOrder ==
    [][IF pc = "calc_capital" /\ pc' = "calc_interest"
       THEN \E pair \in {FillPair(interest_table, frame.k)} :
                /\ NumCapitalSteps(interest_table) = Len(GroupFirstRows(interest_table))
                /\ pair = GroupKey(interest_table, frame.k)
                /\ frame.k > 1 => PairBefore(FillPair(interest_table, frame.k - 1), pair)
                /\ CapitalStepOf(pair, interest_table, interest_table')
       ELSE IF pc = "calc_interest" /\ pc' \in {"calc_capital", "cumulative"}
       THEN \E pair \in {FillPair(interest_table, frame.k)} :
                /\ frame'.k = frame.k + 1
                /\ InterestStepOf(pair, interest_table, interest_table')
                /\ pc' = "cumulative"
                       => /\ frame.k = NumCapitalSteps(interest_table)
                          /\ AllWritten(interest_table')
       ELSE TRUE]_vars

\* the fill of a ledger of two instances of two periods has ended, and the
\* capital of a second period holds the interest of the first
C28_Witness ==
    /\ pc = "cumulative"
    /\ bond.capitalization
    /\ Len(UniqueInstances(interest_table)) = 2
    /\ Len(UniquePeriods(interest_table)) = 2
    /\ frame.k = NumCapitalSteps(interest_table) + 1
    /\ \E i \in 1..Len(interest_table) :
           /\ interest_table[i].period = 2
           /\ interest_table[i].capital > bond.initial_capital
           /\ interest_table[i].interest > 0

\* the interest the tests expect on a row after the first of a period of
\* `rows` rows whose last date is last_date
ExpectedInterest(period, rate, capital, rows, last_date) ==
    IF period = Period_yearly
    THEN RoundHalfEven(rate * capital * 100,
                       number_of_days_in_year(YearOf(DateMinus(last_date, RelativeDate(0, 1)))))
    ELSE RoundHalfEven(rate * capital * 100, 12 * (rows - 1))

\* the rows a..z of a period carry the expected interest, and those of a
\* monthly period add up to a twelfth of rate percent of the capital, within
\* the rounding of each day to 8 decimals
PeriodAsExpected(table, col, a, z) ==
    /\ \A j \in (a + 1)..z :
           table[j].interest = ExpectedInterest(bond.period, table[j].rate, table[j].capital,
                                                z - a + 1, table[z].date)
    /\ bond.period = Period_monthly
           => \E d \in {12 * SumNA(col, a, z) - table[z].rate * table[z].capital * 100} :
                  d <= 6 * (z - a) /\ -d <= 6 * (z - a)

\* C29: on every day of a period but its first, interest is
\* round8(rate/100 * capital / N) for a yearly reset period, N the days of
\* the calendar year that holds the day before the period's last date (366
\* for a period from 2020-01-01 to 2021-01-01), and
\* round8(rate/100/12 * capital / (rows of the period - 1)) for a monthly
\* reset period, so that a monthly period accrues rate/12 percent of the
\* capital whatever the length of the month.
C29_InterestAsTestsFix ==
    /\ Divisor([period |-> Period_yearly],
               <<[date |-> Date(2020, 1, 1)], [date |-> Date(2021, 1, 1)]>>, 1, 2) = 366
    /\ Filled =>
           \E firsts \in {GroupFirstRows(interest_table)}, col \in {Column_interest(interest_table)} :
               \A k \in 1..Len(firsts) :
                   PeriodAsExpected(interest_table, col, firsts[k],
                                    GroupLastRow(interest_table, firsts, k))

\* a filled monthly ledger with two periods of different lengths that
\* accrue interest
C29_Witness ==
    /\ Filled
    /\ bond.period = Period_monthly
    /\ \E firsts \in {GroupFirstRows(interest_table)} :
           \E k1, k2 \in 1..Len(firsts) :
               /\ GroupLastRow(interest_table, firsts, k1) - firsts[k1]
                      # GroupLastRow(interest_table, firsts, k2) - firsts[k2]
               /\ interest_table[firsts[k1] + 1].interest > 0
               /\ interest_table[firsts[k2] + 1].interest > 0

====
